---- MODULE Spec2Model ----
(***************************************************************************)
(* Model of src/figure_type_creator.py: class FigureTypeCreator.           *)
(*                                                                         *)
(* Python lists are sequences (1-based here, 0-based in the source), dicts *)
(* are functions, exceptions are a "fault" field naming the exception.     *)
(* Every number of a style mapping or of a document is kept in hundredths  *)
(* (0.5 is 50, 28 is 2800, 13.33 is 1333) so that the arithmetic stays in  *)
(* the integers.                                                           *)
(***************************************************************************)
EXTENDS Integers, Sequences, FiniteSets, TLC

VARIABLES pc, args, self, initFault, result, call, entries

vars == <<pc, args, self, initFault, result, call, entries>>

----------------------------------------------------------------------------
(* Bounds of the model *)

\* user palettes hold at most MaxPaletteLen colours ...
MaxPaletteLen == 3
\* ... drawn from the colours 1..MaxColor
MaxColor == 2
\* num_entries ranges over 0..MaxEntries (and the default, 10)
MaxEntries == 5
\* get_entries on its own is called with n in 0..MaxCount
MaxCount == 7

----------------------------------------------------------------------------
(* Python helpers *)

Min(a, b) == IF a < b THEN a ELSE b

\* s[:k] for k >= 0
Slice(s, k) == SubSeq(s, 1, Min(k, Len(s)))

\* s * m
RECURSIVE Repeat(_, _)
Repeat(s, m) == IF m <= 0 THEN << >> ELSE s \o Repeat(s, m - 1)

\* d.update(e)
Update(d, e) ==
    [k \in (DOMAIN d) \cup (DOMAIN e) |-> IF k \in DOMAIN e THEN e[k] ELSE d[k]]

\* all sequences over S of length 0..n
SeqsUpTo(S, n) == UNION {[1..k -> S] : k \in 0..n}

NoValue == << >>

----------------------------------------------------------------------------
(* get_entries *)

\* get_entries with the "+ 1" of m forgotten
get_entries_short(cycle_list, num_entries) ==
    LET n == Len(cycle_list) IN
    IF n = 0
    THEN [fault |-> "ZeroDivisionError", out |-> NoValue]
    ELSE LET m == num_entries \div n IN
         [fault |-> "none", out |-> Slice(Repeat(cycle_list, m), num_entries)]

get_entries(cycle_list, num_entries) ==
    LET n == Len(cycle_list) IN
    IF n = 0
    THEN [fault |-> "ZeroDivisionError", out |-> NoValue]
    ELSE LET m == (num_entries \div n) + 1 IN
         [fault |-> "none", out |-> Slice(Repeat(cycle_list, m), num_entries)]

----------------------------------------------------------------------------
(* __init__ *)

available_linestyles == <<"solid", "dotted", "dashed", "dashdot">>
available_markers == <<"o", "^", "s", "*", "X", "d">>
available_hatches == <<"", "//", "\\\\", "||", "--", "++", "xx">>

\* sns.color_palette("colorblind"): ten distinct colours
DefaultPalette == <<11, 12, 13, 14, 15, 16, 17, 18, 19, 20>>
DefaultNumEntries == 10

\* {keys[i]: v for i, v in enumerate(vals)}: keys[i] must exist for every
\* i, and a later pair overwrites an earlier one with the same key
\* the comprehension keyed by colors[i] but reading the channel one place on
DictComp_shifted(keys, vals) ==
    IF Len(vals) > Len(keys)
    THEN [fault |-> "IndexError", out |-> NoValue]
    ELSE [fault |-> "none",
          out |-> [c \in {keys[i] : i \in 1..Len(vals)} |->
                    LET last == CHOOSE i \in 1..Len(vals) :
                                  /\ keys[i] = c
                                  /\ \A j \in 1..Len(vals) : keys[j] = c => j <= i
                    IN vals[(last % Len(vals)) + 1]]]

DictComp(keys, vals) ==
    IF Len(vals) > Len(keys)
    THEN [fault |-> "IndexError", out |-> NoValue]
    ELSE [fault |-> "none",
          out |-> [c \in {keys[i] : i \in 1..Len(vals)} |->
                    LET last == CHOOSE i \in 1..Len(vals) :
                                  /\ keys[i] = c
                                  /\ \A j \in 1..Len(vals) : keys[j] = c => j <= i
                    IN vals[last]]]

\* the object __init__ builds, or the exception it raises
init(a) ==
    LET colors == Slice(a.colors, a.num_entries)
        linestyles == get_entries(available_linestyles, a.num_entries).out
        markers == get_entries(available_markers, a.num_entries).out
        hatches == get_entries(available_hatches, a.num_entries).out
        hatch_map == DictComp(colors, hatches)
        marker_map == DictComp(colors, markers)
        ls_map == DictComp(colors, linestyles)
    IN IF hatch_map.fault # "none" THEN [fault |-> hatch_map.fault, self |-> NoValue]
       ELSE IF marker_map.fault # "none" THEN [fault |-> marker_map.fault, self |-> NoValue]
       ELSE IF ls_map.fault # "none" THEN [fault |-> ls_map.fault, self |-> NoValue]
       ELSE [fault |-> "none",
             self |-> [type |-> a.type,
                       document_class |-> a.document_class,
                       num_entries |-> a.num_entries,
                       use_markers |-> a.use_markers,
                       paper_use_small_font |-> a.paper_use_small_font,
                       colors |-> colors,
                       linestyles |-> linestyles,
                       markers |-> markers,
                       hatches |-> hatches,
                       hatch_map |-> hatch_map.out,
                       marker_map |-> marker_map.out,
                       ls_map |-> ls_map.out]]

----------------------------------------------------------------------------
(* Collaborators: cycler, pubplot.Document, util.in2pt *)

\* cycler(label, itr)
cycler(label, itr) == [i \in 1..Len(itr) |-> (label :> itr[i])]

\* a + b on cyclers: element-wise union, both of one length
cycler_add(a, b) ==
    IF Len(a) # Len(b)
    THEN [fault |-> "ValueError", out |-> NoValue]
    ELSE [fault |-> "none", out |-> [i \in 1..Len(a) |-> Update(a[i], b[i])]]

\* the document classes a caller can pass; the first is usenix, the default.
\* The sizes are the collaborator's: two sample classes that differ in each.
usenix == [name |-> "usenix", columnwidth |-> 24000, textwidth |-> 50400,
           footnotesize |-> 800, normalsize |-> 1000]
DocumentClasses ==
    {usenix,
     [name |-> "acm", columnwidth |-> 24100, textwidth |-> 50600,
      footnotesize |-> 900, normalsize |-> 1100]}

FontSizeKeys == {"font.size", "axes.titlesize", "axes.labelsize",
                 "legend.fontsize", "legend.title_fontsize",
                 "xtick.labelsize", "ytick.labelsize"}

\* Document(document_class, style): the class's own sizes, overlaid with
\* the style it is given
Document(document_class, style) ==
    [style |-> Update([k \in FontSizeKeys |-> document_class.normalsize], style),
     footnotesize |-> document_class.footnotesize,
     columnwidth |-> document_class.columnwidth,
     textwidth |-> document_class.textwidth]

\* doc.update_style(partial)
update_style(doc, partial) == [doc EXCEPT !.style = Update(@, partial)]

\* inches to points, both in hundredths
in2pt(inches) == inches * 72

----------------------------------------------------------------------------
(* The methods of FigureTypeCreator *)

get_cycler(obj) ==
    LET cycling == cycler_add(cycler("color", obj.colors),
                              cycler("ls", obj.linestyles))
    IN IF cycling.fault # "none" THEN cycling
       ELSE IF obj.use_markers
            THEN cycler_add(cycling.out, cycler("marker", obj.markers))
            ELSE cycling

get_custom_style(obj) == << >>

PaperLineSizes ==
    ("axes.linewidth" :> 50) @@ ("xtick.major.width" :> 50)
    @@ ("ytick.major.width" :> 50) @@ ("xtick.minor.width" :> 40)
    @@ ("ytick.minor.width" :> 40) @@ ("lines.linewidth" :> 80)
    @@ ("lines.markersize" :> 150) @@ ("legend.handlelength" :> 250)
    @@ ("hatch.linewidth" :> 50) @@ ("grid.linewidth" :> 25)

\* get_line_sizes without the final raise: any other mode gets the defaults
get_line_sizes_fallthrough(obj) ==
    LET ret == ("grid.linestyle" :> "--") IN
    IF obj.type = "paper"
    THEN [fault |-> "none", out |-> Update(ret, PaperLineSizes)]
    ELSE [fault |-> "none", out |-> Update(ret, << >>)]

\* get_line_sizes with the print overrides applied to both modes
get_line_sizes_same(obj) ==
    LET ret == ("grid.linestyle" :> "--") IN
    IF obj.type = "paper" \/ obj.type = "presentation"
    THEN [fault |-> "none", out |-> Update(ret, PaperLineSizes)]
    ELSE [fault |-> "NotImplementedError", out |-> NoValue]

get_line_sizes(obj) ==
    LET ret == ("grid.linestyle" :> "--") IN
    IF obj.type = "paper"
    THEN [fault |-> "none", out |-> Update(ret, PaperLineSizes)]
    ELSE IF obj.type = "presentation"
    THEN [fault |-> "none", out |-> Update(ret, << >>)]
    ELSE [fault |-> "NotImplementedError", out |-> NoValue]

\* the name `type` in get_font_sizes is Python's builtin, not self.type
BuiltinType == "<class 'type'>"

PresentationFontSizes ==
    LET big_size == 2800
        small_size == 2400
    IN ("font.size" :> big_size) @@ ("axes.titlesize" :> big_size)
       @@ ("axes.labelsize" :> big_size) @@ ("legend.fontsize" :> small_size)
       @@ ("legend.title_fontsize" :> big_size)
       @@ ("xtick.labelsize" :> small_size) @@ ("ytick.labelsize" :> small_size)

get_font_sizes(obj) ==
    LET ret == ("font.family" :> "sans-serif")
               @@ ("text.latex.preamble" :>
                     "\\usepackage[cm]{sfmath}\n\\usepackage{amsmath}")
    IN IF BuiltinType = "presentation"
       THEN Update(ret, PresentationFontSizes)
       ELSE ret

\* presentation_config with the two inch values exchanged
presentation_config_swapped(obj, doc) ==
    [doc EXCEPT !.columnwidth = in2pt(750), !.textwidth = in2pt(1333)]

presentation_config(obj, doc) ==
    [doc EXCEPT !.columnwidth = in2pt(1333), !.textwidth = in2pt(750)]

SmallFontPatch(big_size, small_size) ==
    ("font.size" :> big_size) @@ ("axes.titlesize" :> big_size)
    @@ ("axes.labelsize" :> big_size) @@ ("legend.fontsize" :> small_size)
    @@ ("legend.title_fontsize" :> big_size)
    @@ ("xtick.labelsize" :> small_size) @@ ("ytick.labelsize" :> small_size)

\* paper_small_font without its assert
paper_small_font_noassert(obj, doc) ==
    IF obj.paper_use_small_font
    THEN [fault |-> "none",
          doc |-> update_style(doc, SmallFontPatch(doc.footnotesize - 100,
                                                   doc.footnotesize - 200)),
          footnotesizeRead |-> TRUE, updateStyleCalls |-> 1]
    ELSE [fault |-> "none", doc |-> doc,
          footnotesizeRead |-> FALSE, updateStyleCalls |-> 0]

\* paper_small_font with one size for both tiers
paper_small_font_onesize(obj, doc) ==
    IF obj.paper_use_small_font
    THEN IF obj.type # "paper"
         THEN [fault |-> "AssertionError", doc |-> doc,
               footnotesizeRead |-> FALSE, updateStyleCalls |-> 0]
         ELSE [fault |-> "none",
               doc |-> update_style(doc, SmallFontPatch(doc.footnotesize - 100,
                                                        doc.footnotesize - 100)),
               footnotesizeRead |-> TRUE, updateStyleCalls |-> 1]
    ELSE [fault |-> "none", doc |-> doc,
          footnotesizeRead |-> FALSE, updateStyleCalls |-> 0]

\* the document after the call, the exception raised, whether
\* doc.footnotesize was read and how often doc.update_style was called
paper_small_font(obj, doc) ==
    IF obj.paper_use_small_font
    THEN IF obj.type # "paper"
         THEN [fault |-> "AssertionError", doc |-> doc,
               footnotesizeRead |-> FALSE, updateStyleCalls |-> 0]
         ELSE LET big_size == doc.footnotesize - 100
                  small_size == doc.footnotesize - 200
              IN [fault |-> "none",
                  doc |-> update_style(doc, SmallFontPatch(big_size, small_size)),
                  footnotesizeRead |-> TRUE, updateStyleCalls |-> 1]
    ELSE [fault |-> "none", doc |-> doc,
          footnotesizeRead |-> FALSE, updateStyleCalls |-> 0]

\* no document was constructed
Raised(fault) ==
    [fault |-> fault, docConstructed |-> FALSE, doc |-> NoValue,
     footnotesizeRead |-> FALSE, updateStyleCalls |-> 0]

get_figure_type(obj) ==
    LET cyc == get_cycler(obj)
        line == get_line_sizes(obj)
    IN IF cyc.fault # "none" THEN Raised(cyc.fault)
       ELSE IF line.fault # "none" THEN Raised(line.fault)
       ELSE LET style == Update(Update(Update(
                             ("pdf.fonttype" :> 4200) @@ ("axes.prop_cycle" :> cyc.out),
                             get_custom_style(obj)), line.out), get_font_sizes(obj))
                doc == Document(obj.document_class, style)
                patched == paper_small_font(obj, presentation_config(obj, doc))
            IN [fault |-> patched.fault, docConstructed |-> TRUE,
                doc |-> patched.doc,
                footnotesizeRead |-> patched.footnotesizeRead,
                updateStyleCalls |-> patched.updateStyleCalls]

----------------------------------------------------------------------------
(* The builder: construct a FigureTypeCreator, then ask it for a document *)

Types == {"paper", "presentation", "poster"}

Palettes == SeqsUpTo(1..MaxColor, MaxPaletteLen) \cup {DefaultPalette}

NumEntries == (0..MaxEntries) \cup {DefaultNumEntries}

NoCall == [called |-> FALSE]

Init ==
    /\ pc = "new"
    /\ args = NoValue
    /\ self = NoValue
    /\ initFault = "none"
    /\ result = NoValue
    /\ call = NoCall
    /\ entries = NoCall

\* FigureTypeCreator(type, document_class, colors, use_markers,
\*                   paper_use_small_font, num_entries)
Construct ==
    /\ pc = "new"
    /\ \E type \in Types, document_class \in DocumentClasses,
          colors \in Palettes, use_markers \in BOOLEAN,
          paper_use_small_font \in BOOLEAN, num_entries \in NumEntries :
         LET a == [type |-> type, document_class |-> document_class,
                   colors |-> colors, use_markers |-> use_markers,
                   paper_use_small_font |-> paper_use_small_font,
                   num_entries |-> num_entries]
             r == init(a)
         IN /\ args' = a
            /\ self' = r.self
            /\ initFault' = r.fault
            /\ pc' = IF r.fault = "none" THEN "constructed" ELSE "init_raised"
    /\ UNCHANGED <<result, call, entries>>

\* self.get_figure_type()
GetFigureType ==
    /\ pc = "constructed"
    /\ result' = get_figure_type(self)
    /\ pc' = IF result'.fault = "none" THEN "returned" ELSE "raised"
    /\ UNCHANGED <<args, self, initFault, call, entries>>

\* self.get_line_sizes(), called on its own
GetLineSizes ==
    /\ pc = "constructed"
    /\ ~call.called
    /\ LET r == get_line_sizes(self)
       IN call' = [called |-> TRUE, method |-> "get_line_sizes",
                   fault |-> r.fault, out |-> r.out]
    /\ UNCHANGED <<pc, args, self, initFault, result, entries>>

\* self.get_font_sizes(), called on its own
GetFontSizes ==
    /\ pc = "constructed"
    /\ ~call.called
    /\ call' = [called |-> TRUE, method |-> "get_font_sizes",
                fault |-> "none", out |-> get_font_sizes(self)]
    /\ UNCHANGED <<pc, args, self, initFault, result, entries>>

\* self.paper_small_font(doc), called on its own with a fresh document
PaperSmallFont ==
    /\ pc = "constructed"
    /\ ~call.called
    /\ \E document_class \in DocumentClasses :
         LET doc == Document(document_class, << >>)
             r == paper_small_font(self, doc)
         IN call' = [called |-> TRUE, method |-> "paper_small_font",
                     fault |-> r.fault, out |-> r.doc, before |-> doc,
                     footnotesizeRead |-> r.footnotesizeRead,
                     updateStyleCalls |-> r.updateStyleCalls]
    /\ UNCHANGED <<pc, args, self, initFault, result, entries>>

Next ==
    \/ Construct
    \/ GetFigureType
    \/ GetLineSizes
    \/ GetFontSizes
    \/ PaperSmallFont

Spec == Init /\ [][Next]_vars

----------------------------------------------------------------------------
(* get_entries on its own: the arguments are drawn at the start *)

EntryValues == {"o", "^", "s"}

InitEntries ==
    /\ pc = "new"
    /\ args = NoValue
    /\ self = NoValue
    /\ initFault = "none"
    /\ result = NoValue
    /\ call = NoCall
    /\ \E cycle_list \in SeqsUpTo(EntryValues, MaxPaletteLen), n \in 0..MaxCount :
         entries = [called |-> FALSE, cycle_list |-> cycle_list, num_entries |-> n]

CallGetEntries ==
    /\ ~entries.called
    /\ LET r == get_entries(entries.cycle_list, entries.num_entries)
       IN entries' = [called |-> TRUE, cycle_list |-> entries.cycle_list,
                      num_entries |-> entries.num_entries,
                      fault |-> r.fault, out |-> r.out]
    /\ UNCHANGED <<pc, args, self, initFault, result, call>>

NextEntries == CallGetEntries

SpecEntries == InitEntries /\ [][NextEntries]_vars

----------------------------------------------------------------------------
(* Properties *)

Built == pc \in {"constructed", "returned", "raised"}
Asked == pc \in {"returned", "raised"}
Called(method) == call.called /\ call.method = method

Distinct(seq) == \A i, j \in 1..Len(seq) : seq[i] = seq[j] => i = j
Range(seq) == {seq[i] : i \in 1..Len(seq)}

\* C1: for a non-empty palette P and n >= 0, get_entries(P, n) has length
\* n and its element at every position i in [0, n) is P[i mod len(P)].
C1_CyclicAssignment ==
    (entries.called /\ Len(entries.cycle_list) > 0) =>
        /\ entries.fault = "none"
        /\ Len(entries.out) = entries.num_entries
        /\ \A i \in 0..(entries.num_entries - 1) :
             entries.out[i + 1] =
                 entries.cycle_list[(i % Len(entries.cycle_list)) + 1]

\* the scenario assign(['o','^','s'], 5)
C1_Scenario ==
    /\ entries.called
    /\ entries.cycle_list = <<"o", "^", "s">>
    /\ entries.num_entries = 5
    /\ entries.out = <<"o", "^", "s", "o", "^">>

\* C2: for every num_entries N and every non-empty colour palette, also one
\* with fewer than N colours, construction yields colour, line-style, marker
\* and hatch sequences that all have length N.
C2_EqualLengths ==
    (pc # "new" /\ Len(args.colors) > 0) =>
        /\ initFault = "none"
        /\ Len(self.colors) = args.num_entries
        /\ Len(self.linestyles) = args.num_entries
        /\ Len(self.markers) = args.num_entries
        /\ Len(self.hatches) = args.num_entries

\* C3: after construction with N series of pairwise distinct colours,
\* looking colors[i] up in ls_map, marker_map and hatch_map yields
\* linestyles[i], markers[i] and hatches[i], and each map has exactly the N
\* colours as its keys.
C3_ReverseMapRoundTrip ==
    (Built /\ Distinct(self.colors)) =>
        /\ \A i \in 1..self.num_entries :
             /\ self.ls_map[self.colors[i]] = self.linestyles[i]
             /\ self.marker_map[self.colors[i]] = self.markers[i]
             /\ self.hatch_map[self.colors[i]] = self.hatches[i]
        /\ DOMAIN self.ls_map = Range(self.colors)
        /\ DOMAIN self.marker_map = Range(self.colors)
        /\ DOMAIN self.hatch_map = Range(self.colors)
        /\ Cardinality(Range(self.colors)) = self.num_entries

\* ten distinct colours, every built-in palette wrapped
C3_TenSeries ==
    /\ Built
    /\ self.num_entries = 10
    /\ Distinct(self.colors)
    /\ self.ls_map[self.colors[6]] = "dotted"
    /\ self.marker_map[self.colors[8]] = "^"
    /\ self.hatch_map[self.colors[9]] = "//"

\* C4: a document returned by get_figure_type for mode 'paper' does not
\* carry the presentation layout constants columnwidth = in2pt(13.33) and
\* textwidth = in2pt(7.5).
C4_PaperNoLayoutConstants ==
    (pc = "returned" /\ self.type = "paper") =>
        /\ result.doc.columnwidth # in2pt(1333)
        /\ result.doc.textwidth # in2pt(750)

\* C5: when paper_use_small_font is set and the mode is not 'paper',
\* paper_small_font raises AssertionError before it reads doc.footnotesize
\* or calls update_style, get_figure_type returns no document, and a
\* document returned for mode 'presentation' never got the small-font patch.
C5_SmallFontNeedsPaper ==
    /\ (Called("paper_small_font") /\ self.paper_use_small_font
            /\ self.type # "paper") =>
          /\ call.fault = "AssertionError"
          /\ ~call.footnotesizeRead
          /\ call.updateStyleCalls = 0
          /\ call.out = call.before
    /\ (Asked /\ self.paper_use_small_font /\ self.type # "paper") =>
          /\ pc = "raised"
          /\ ~result.footnotesizeRead
          /\ result.updateStyleCalls = 0
          /\ result.docConstructed => result.fault = "AssertionError"
    /\ (pc = "returned" /\ self.type = "presentation") =>
          /\ result.updateStyleCalls = 0
          /\ ~result.footnotesizeRead

\* get_figure_type of a presentation builder stopped by the assert
C5_PresentationAsserts ==
    /\ pc = "raised"
    /\ self.type = "presentation"
    /\ self.paper_use_small_font
    /\ result.docConstructed
    /\ result.fault = "AssertionError"

DefaultArgs(type, paper_use_small_font) ==
    [type |-> type, document_class |-> usenix, colors |-> DefaultPalette,
     use_markers |-> FALSE, paper_use_small_font |-> paper_use_small_font,
     num_entries |-> DefaultNumEntries]

\* C6 as stated: mode 'presentation' with every other input at its default
\* (paper-small-font flag on) completes and yields a document with
\* columnwidth = in2pt(13.33) and textwidth = in2pt(7.5).
C6_PresentationDefaults ==
    (Asked /\ args = DefaultArgs("presentation", TRUE)) =>
        /\ pc = "returned"
        /\ result.doc.columnwidth = in2pt(1333)
        /\ result.doc.textwidth = in2pt(750)

\* C6: mode 'presentation' with the paper-small-font flag off and every
\* other input at its default completes and yields a document with
\* columnwidth = in2pt(13.33) and textwidth = in2pt(7.5);
\* with the flag at its default (on) the build raises AssertionError and
\* returns no document.
C6_PresentationFlagOff ==
    /\ (Asked /\ args = DefaultArgs("presentation", FALSE)) =>
          /\ pc = "returned"
          /\ result.doc.columnwidth = in2pt(1333)
          /\ result.doc.textwidth = in2pt(750)
    /\ (Asked /\ args = DefaultArgs("presentation", TRUE)) =>
          /\ pc = "raised"
          /\ result.fault = "AssertionError"

C6_PresentationReturned ==
    /\ pc = "returned"
    /\ args = DefaultArgs("presentation", FALSE)
    /\ result.doc.columnwidth = 95976

\* C7: get_font_sizes always returns the font family and the LaTeX
\* preamble, and it holds the size entries (28 for font.size,
\* axes.titlesize, axes.labelsize, legend.title_fontsize; 24 for
\* legend.fontsize, xtick.labelsize, ytick.labelsize) exactly when the mode
\* is 'presentation'.
C7_FontSizesByMode ==
    Called("get_font_sizes") =>
        /\ call.out["font.family"] = "sans-serif"
        /\ "text.latex.preamble" \in DOMAIN call.out
        /\ self.type = "presentation" =>
             /\ \A k \in {"font.size", "axes.titlesize", "axes.labelsize",
                          "legend.title_fontsize"} :
                   k \in DOMAIN call.out /\ call.out[k] = 2800
             /\ \A k \in {"legend.fontsize", "xtick.labelsize",
                          "ytick.labelsize"} :
                   k \in DOMAIN call.out /\ call.out[k] = 2400
        /\ self.type # "presentation" =>
             DOMAIN call.out = {"font.family", "text.latex.preamble"}

\* C8: for a mode other than 'paper' and 'presentation' get_line_sizes
\* raises NotImplementedError, get_figure_type raises it too, and no
\* Document is constructed, mutated or returned.
C8_UnsupportedModeFails ==
    /\ (Called("get_line_sizes") /\ self.type \notin {"paper", "presentation"}) =>
          call.fault = "NotImplementedError"
    /\ (Asked /\ self.type \notin {"paper", "presentation"}) =>
          /\ pc = "raised"
          /\ result.fault = "NotImplementedError"
          /\ ~result.docConstructed
          /\ result.updateStyleCalls = 0

C8_PosterRaised ==
    /\ pc = "raised"
    /\ self.type = "poster"
    /\ result.fault = "NotImplementedError"

PaperOverrideKeys ==
    {"axes.linewidth", "xtick.major.width", "ytick.major.width",
     "xtick.minor.width", "ytick.minor.width", "lines.linewidth",
     "lines.markersize", "legend.handlelength", "hatch.linewidth",
     "grid.linewidth"}

\* C9: what get_line_sizes returns always has grid.linestyle = '--'; for
\* mode 'paper' it also has the ten print overrides, among them
\* axes.linewidth = 0.5 and lines.linewidth = 0.8; for mode 'presentation'
\* it has none of those keys.
C9_LineSizesByMode ==
    (Called("get_line_sizes") /\ call.fault = "none") =>
        /\ call.out["grid.linestyle"] = "--"
        /\ self.type = "paper" =>
             /\ DOMAIN call.out = PaperOverrideKeys \cup {"grid.linestyle"}
             /\ call.out["axes.linewidth"] = 50
             /\ call.out["lines.linewidth"] = 80
        /\ self.type = "presentation" =>
             /\ DOMAIN call.out = {"grid.linestyle"}
             /\ (DOMAIN call.out) \cap PaperOverrideKeys = {}

C9_PresentationTenSeries ==
    /\ Called("get_line_sizes")
    /\ self.type = "presentation"
    /\ self.num_entries = 10
    /\ call.fault = "none"

BigSizeKeys == {"font.size", "axes.titlesize", "axes.labelsize",
                "legend.title_fontsize"}
SmallSizeKeys == {"legend.fontsize", "xtick.labelsize", "ytick.labelsize"}

\* C10: for mode 'paper' with paper_use_small_font set, the returned
\* document's style has font.size, axes.titlesize, axes.labelsize and
\* legend.title_fontsize at doc.footnotesize - 1 and legend.fontsize,
\* xtick.labelsize and ytick.labelsize at doc.footnotesize - 2; with the
\* flag off update_style is never called and the font sizes stay as the
\* document class set them.
C10_SmallFontPatch ==
    (Asked /\ self.type = "paper") =>
        /\ pc = "returned"
        /\ self.paper_use_small_font =>
             /\ result.updateStyleCalls = 1
             /\ \A k \in BigSizeKeys :
                  result.doc.style[k] = result.doc.footnotesize - 100
             /\ \A k \in SmallSizeKeys :
                  result.doc.style[k] = result.doc.footnotesize - 200
        /\ ~self.paper_use_small_font =>
             /\ result.updateStyleCalls = 0
             /\ ~result.footnotesizeRead
             /\ \A k \in BigSizeKeys \cup SmallSizeKeys :
                  result.doc.style[k] = self.document_class.normalsize

C10_PaperPatched ==
    /\ pc = "returned"
    /\ self.type = "paper"
    /\ self.paper_use_small_font
    /\ result.doc.footnotesize = 800
    /\ result.doc.style["font.size"] = 700
    /\ result.doc.style["legend.fontsize"] = 600

====
